---- MODULE Spec2Model ----
(***************************************************************************)
(* A model of the image_splitting library (src/lib.rs): the two functions  *)
(* split_image (fixed 3x3 grid) and split_image_with_size (caller-given    *)
(* tile size), as one call run step by step: open the file, compute the    *)
(* grid, run the nested loop one crop at a time, return.                   *)
(*                                                                         *)
(* u32 values are modelled as the integers 0 .. 2^Bits - 1.  Rust checks   *)
(* integer overflow in builds with overflow checks (debug) and wraps       *)
(* modulo 2^32 in builds without (release); division by zero panics in     *)
(* both.  The build is an input of the call.                               *)
(***************************************************************************)
EXTENDS Integers, Sequences, FiniteSets, TLC

\* ---------------------------------------------------------------- bounds
\* Width of the unsigned integer type (u32 in the source, scaled down).
Bits == 4
\* Largest image width and height that are enumerated.
MaxDim == 10
\* Largest "small" tile dimension enumerated (0 .. MaxTile); the two largest
\* values of the integer type are enumerated too.
MaxTile == 5

Modulus == 2 ^ Bits
U32Max == Modulus - 1

Builds == {"debug", "release"}
DecodeErrors == {"Unsupported", "IoError"}
Functions == {"split_image", "split_image_with_size"}

ImageDims == 1 .. MaxDim
TileDims == (0 .. MaxTile) \cup {U32Max - 1, U32Max}

\* ------------------------------------------------------ integer helpers
Min(a, b) == IF a <= b THEN a ELSE b

\* The value a u32 holds after an operation whose exact result is n.
Wrap(n) == ((n % Modulus) + Modulus) % Modulus

\* The exact result n does not fit a u32.
Overflows(n) == n < 0 \/ n >= Modulus

\* ------------------------------------------------------------ the image
\* The pixel the decoder yields at (px, py) of a w-wide image: every pixel
\* of an image is different, so a misplaced copy is visible.
DecodedPixel(w, px, py) == py * w + px

\* image::open on a readable file: the decoded pixel grid.
DecodedImage(w, h) ==
  [p \in (0 .. w - 1) \X (0 .. h - 1) |-> DecodedPixel(w, p[1], p[2])]

NoImage == <<>>

VARIABLES
  fn,          \* the function called
  build,       \* "debug": overflow checks on; "release": wrapping
  file,        \* what image::open will make of image_path
  img,         \* the decoded image (NoImage before the open)
  width,       \* img.dimensions()
  height,
  sub_width,   \* split_image: width / 3; split_image_with_size: argument
  sub_height,
  num_cols,    \* bound of the inner loop
  num_rows,    \* bound of the outer loop
  x,           \* inner loop variable
  y,           \* outer loop variable
  regions,     \* the arguments of every crop_imm call so far, in order
  sub_images,  \* the vector of tiles pushed so far
  result,      \* what the call has produced
  pc

vars == <<fn, build, file, img, width, height, sub_width, sub_height,
          num_cols, num_rows, x, y, regions, sub_images, result, pc>>

NoResult == [kind |-> "None"]
Ok(v) == [kind |-> "Ok", value |-> v]
Err(e) == [kind |-> "Err", error |-> e]
Panic(m) == [kind |-> "Panic", message |-> m]

\* ----------------------------------------------------- region extraction
\* imageops::crop_dimms, as used by crop_imm: the region clamped to the
\* image.
crop_dimms(iw, ih, rx, ry, rw, rh) ==
  LET cx == Min(rx, iw)
      cy == Min(ry, ih)
  IN [x |-> cx, y |-> cy, w |-> Min(rw, iw - cx), h |-> Min(rh, ih - cy)]

\* img.crop_imm(rx, ry, rw, rh).to_rgba8(): an owned buffer holding the
\* pixels of the clamped region.
crop_imm(image, iw, ih, rx, ry, rw, rh) ==
  LET d == crop_dimms(iw, ih, rx, ry, rw, rh)
  IN [w |-> d.w, h |-> d.h,
      px |-> [p \in (0 .. d.w - 1) \X (0 .. d.h - 1) |->
                image[<<d.x + p[1], d.y + p[2]>>]]]

\* ------------------------------------------------------------ split_image
\* Mutant of sub_dimension: the division rounds up instead of down.
sub_dimension_rounded_up(dim) == (dim + 2) \div 3

\* let sub_width = width / 3;  let sub_height = height / 3;
sub_dimension(dim) == dim \div 3

\* for y in 0..3 / for x in 0..3
GridSide == 3

\* The arguments of the crop_imm call of split_image at loop position
\* (col, row); panic: an overflow check fails.
uniform_region(col, row) ==
  LET xm == col * sub_width
      ym == row * sub_height
  IN [panic |-> build = "debug" /\ (Overflows(xm) \/ Overflows(ym)),
      x |-> Wrap(xm), y |-> Wrap(ym), w |-> sub_width, h |-> sub_height]

\* -------------------------------------------------- split_image_with_size
\* (dim + sub - 1) / sub in u32 arithmetic, left to right.
ceiling_division(dim, sub, mode) ==
  LET s1 == dim + sub
      s2 == Wrap(s1) - 1
  IN IF mode = "debug" /\ (Overflows(s1) \/ Overflows(s2))
       THEN [panic |-> "attempt to add with overflow", val |-> 0]
     ELSE IF sub = 0
       THEN [panic |-> "attempt to divide by zero", val |-> 0]
     ELSE [panic |-> "none", val |-> Wrap(s2) \div sub]

\* let x_pos = x * sub_width;
x_pos(col) == col * sub_width
\* let y_pos = y * sub_height;
y_pos(row) == row * sub_height

\* Mutant of actual_width: the remaining width, not limited to sub_width.
actual_width_remaining(xp) == Wrap(width - xp)

\* Mutant of actual_width: always sub_width, not limited to what remains.
actual_width_unclamped(xp) == sub_width

\* let actual_width = (width - x_pos).min(sub_width);
actual_width(xp) == Min(Wrap(width - xp), sub_width)
\* let actual_height = (height - y_pos).min(sub_height);
actual_height(yp) == Min(Wrap(height - yp), sub_height)

\* The arguments of the crop_imm call of split_image_with_size at loop
\* position (col, row); panic: an overflow check fails.
sized_region(col, row) ==
  LET xm == x_pos(col)
      ym == y_pos(row)
      xp == Wrap(xm)
      yp == Wrap(ym)
  IN [panic |-> build = "debug" /\
                  (Overflows(xm) \/ Overflows(ym) \/
                   Overflows(width - xp) \/ Overflows(height - yp)),
      x |-> xp, y |-> yp, w |-> actual_width(xp), h |-> actual_height(yp)]

\* --------------------------------------------------------------- the loop
\* Mutant of loop_done: the outer loop stops one row early.
loop_done_one_row_early == y + 1 >= num_rows \/ num_cols = 0

\* Both nested for loops have run to their end.
loop_done == y >= num_rows \/ num_cols = 0

\* The loop variables after the body has run at (x, y).
next_x == IF x + 1 < num_cols THEN x + 1 ELSE 0
next_y == IF x + 1 < num_cols THEN y ELSE y + 1

\* ------------------------------------------------------------------ Init
\* A call of either function, on a path that decodes to an image of any
\* size in ImageDims or fails to decode, with any tile size in TileDims.
Init ==
  /\ fn \in Functions
  /\ build \in Builds
  /\ file \in [ok : {TRUE}, w : ImageDims, h : ImageDims, error : {"none"}]
         \cup [ok : {FALSE}, w : {0}, h : {0}, error : DecodeErrors]
  /\ IF fn = "split_image_with_size"
       THEN sub_width \in TileDims /\ sub_height \in TileDims
       ELSE sub_width = 0 /\ sub_height = 0
  /\ img = NoImage
  /\ width = 0
  /\ height = 0
  /\ num_cols = 0
  /\ num_rows = 0
  /\ x = 0
  /\ y = 0
  /\ regions = <<>>
  /\ sub_images = <<>>
  /\ result = NoResult
  /\ pc = "open"

\* --------------------------------------------------------------- actions
\* let img = image::open(image_path)?;  let (width, height) = img.dimensions();
open ==
  /\ pc = "open"
  /\ IF file.ok
       THEN /\ img' = DecodedImage(file.w, file.h)
            /\ width' = file.w
            /\ height' = file.h
            /\ pc' = "grid"
            /\ UNCHANGED result
       ELSE /\ result' = Err(file.error)
            /\ pc' = "done"
            /\ UNCHANGED <<img, width, height>>
  /\ UNCHANGED <<fn, build, file, sub_width, sub_height, num_cols, num_rows,
                 x, y, regions, sub_images>>

\* split_image: the sub-image dimensions and the empty vector.
uniform_grid ==
  /\ pc = "grid"
  /\ fn = "split_image"
  /\ sub_width' = sub_dimension(width)
  /\ sub_height' = sub_dimension(height)
  /\ num_cols' = GridSide
  /\ num_rows' = GridSide
  /\ x' = 0
  /\ y' = 0
  /\ pc' = "loop"
  /\ UNCHANGED <<fn, build, file, img, width, height, regions, sub_images,
                 result>>

\* split_image: one run of the loop body.
uniform_step ==
  /\ pc = "loop"
  /\ fn = "split_image"
  /\ ~loop_done
  /\ LET r == uniform_region(x, y)
     IN IF r.panic
          THEN /\ result' = Panic("attempt to multiply with overflow")
               /\ pc' = "done"
               /\ UNCHANGED <<x, y, regions, sub_images>>
          ELSE /\ regions' = Append(regions, [x |-> r.x, y |-> r.y,
                                               w |-> r.w, h |-> r.h])
               /\ sub_images' = Append(sub_images,
                     crop_imm(img, width, height, r.x, r.y, r.w, r.h))
               /\ x' = next_x
               /\ y' = next_y
               /\ UNCHANGED <<result, pc>>
  /\ UNCHANGED <<fn, build, file, img, width, height, sub_width, sub_height,
                 num_cols, num_rows>>

\* split_image_with_size: num_cols, num_rows and the empty vector.
sized_grid ==
  /\ pc = "grid"
  /\ fn = "split_image_with_size"
  /\ LET c == ceiling_division(width, sub_width, build)
         r == ceiling_division(height, sub_height, build)
     IN IF c.panic # "none"
          THEN /\ result' = Panic(c.panic)
               /\ pc' = "done"
               /\ UNCHANGED <<num_cols, num_rows>>
        ELSE IF r.panic # "none"
          THEN /\ result' = Panic(r.panic)
               /\ pc' = "done"
               /\ UNCHANGED <<num_cols, num_rows>>
        ELSE /\ num_cols' = c.val
             /\ num_rows' = r.val
             /\ pc' = "loop"
             /\ UNCHANGED result
  /\ x' = 0
  /\ y' = 0
  /\ UNCHANGED <<fn, build, file, img, width, height, sub_width, sub_height,
                 regions, sub_images>>

\* split_image_with_size: one run of the loop body.
sized_step ==
  /\ pc = "loop"
  /\ fn = "split_image_with_size"
  /\ ~loop_done
  /\ LET r == sized_region(x, y)
     IN IF r.panic
          THEN /\ result' = Panic("attempt to multiply with overflow")
               /\ pc' = "done"
               /\ UNCHANGED <<x, y, regions, sub_images>>
          ELSE /\ regions' = Append(regions, [x |-> r.x, y |-> r.y,
                                               w |-> r.w, h |-> r.h])
               /\ sub_images' = Append(sub_images,
                     crop_imm(img, width, height, r.x, r.y, r.w, r.h))
               /\ x' = next_x
               /\ y' = next_y
               /\ UNCHANGED <<result, pc>>
  /\ UNCHANGED <<fn, build, file, img, width, height, sub_width, sub_height,
                 num_cols, num_rows>>

\* Ok(sub_images)
return ==
  /\ pc = "loop"
  /\ loop_done
  /\ result' = Ok(sub_images)
  /\ pc' = "done"
  /\ UNCHANGED <<fn, build, file, img, width, height, sub_width, sub_height,
                 num_cols, num_rows, x, y, regions, sub_images>>

Next == open \/ uniform_grid \/ uniform_step \/ sized_grid \/ sized_step \/ return

Spec == Init /\ [][Next]_vars

TypeOK ==
  /\ fn \in Functions
  /\ build \in Builds
  /\ pc \in {"open", "grid", "loop", "done"}
  /\ width \in 0 .. U32Max /\ height \in 0 .. U32Max
  /\ sub_width \in 0 .. U32Max /\ sub_height \in 0 .. U32Max
  /\ num_cols \in 0 .. U32Max /\ num_rows \in 0 .. U32Max
  /\ Len(regions) = Len(sub_images)
  /\ result.kind \in {"None", "Ok", "Err", "Panic"}
\* ------------------------------------------------- vocabulary of the claims
Uniform == fn = "split_image"
Sized == fn = "split_image_with_size"
ValidTiles == sub_width >= 1 /\ sub_height >= 1

\* ceil(a / b) in exact integers.
Ceil(a, b) == (a + b - 1) \div b

\* The grid of the tile-size splitter as the specification defines it.
GridCols == Ceil(width, sub_width)
GridRows == Ceil(height, sub_height)

\* Row-major grid position of the tile at (1-based) index i.
SizedCol(i) == (i - 1) % GridCols
SizedRow(i) == (i - 1) \div GridCols
UniformCol(i) == (i - 1) % 3
UniformRow(i) == (i - 1) \div 3

\* The rectangle the tile at index i was cut from: the crop arguments after
\* the clamping of the extraction primitive, with the buffer's own size.
TileRect(i) ==
  LET r == regions[i]
      d == crop_dimms(width, height, r.x, r.y, r.w, r.h)
  IN [x |-> d.x, y |-> d.y, w |-> sub_images[i].w, h |-> sub_images[i].h]

InRect(r, px, py) ==
  /\ r.x <= px /\ px < r.x + r.w
  /\ r.y <= py /\ py < r.y + r.h

\* The indices of the tiles whose rectangle holds pixel (px, py).
Covering(px, py) ==
  {i \in 1 .. Len(sub_images) : InRect(TileRect(i), px, py)}

RECURSIVE AreaUpTo(_)
AreaUpTo(n) ==
  IF n = 0 THEN 0
  ELSE sub_images[n].w * sub_images[n].h + AreaUpTo(n - 1)

TotalArea == AreaUpTo(Len(sub_images))

Pixels == (0 .. width - 1) \X (0 .. height - 1)

\* No u32 operation of the grid computation leaves the integer range.
GridInRange == width + sub_width <= U32Max /\ height + sub_height <= U32Max

\* =============================================================== the claims

\* C3: split_image on an image that decodes (any width, height >= 1, also
\* below 3, where the tiles are empty) never produces an error or a panic,
\* never holds more than 9 tiles, always can take its next step until it has
\* returned, and returns Ok with exactly 9 tiles.
C3_UniformAlwaysNine ==
  (Uniform /\ file.ok) =>
    /\ result.kind \in {"None", "Ok"}
    /\ Len(sub_images) <= 9
    /\ pc = "done" => (result.kind = "Ok" /\ Len(result.value) = 9)
    /\ pc # "done" => ENABLED Next

\* C3 happens: a call on an image narrower than 3 pixels has returned Ok
\* with 9 tiles, all of them empty.
C3_Witness ==
  /\ Uniform /\ file.ok /\ pc = "done"
  /\ width < 3 /\ height >= 3
  /\ result.kind = "Ok" /\ Len(result.value) = 9
  /\ \A i \in 1 .. 9 : result.value[i].w = 0

\* C5: in split_image every tile has the dimensions floor(width/3) x
\* floor(height/3) and was cut at ((i % 3) * floor(width/3),
\* (i / 3) * floor(height/3)) for its 0-based index i; no pixel lies in two
\* tiles; and once the call has returned, the covered area is
\* 9 * floor(width/3) * floor(height/3) and the pixels in no tile are exactly
\* those with px >= 3 * floor(width/3) or py >= 3 * floor(height/3).
C5_UniformTruncation ==
  (Uniform /\ file.ok) =>
    LET sw == width \div 3
        sh == height \div 3
    IN /\ \A i \in 1 .. Len(sub_images) :
            /\ sub_images[i].w = sw /\ sub_images[i].h = sh
            /\ DOMAIN sub_images[i].px = (0 .. sw - 1) \X (0 .. sh - 1)
            /\ regions[i] = [x |-> UniformCol(i) * sw, y |-> UniformRow(i) * sh,
                             w |-> sw, h |-> sh]
            /\ TileRect(i) = regions[i]
       /\ \A p \in Pixels : Cardinality(Covering(p[1], p[2])) <= 1
       /\ result.kind = "Ok" =>
            /\ TotalArea = 9 * sw * sh
            /\ \A p \in Pixels :
                 (Covering(p[1], p[2]) = {}) <=> (p[1] >= 3 * sw \/ p[2] >= 3 * sh)

\* C5 happens: a 10x10 image has been split into 9 tiles of 3x3 that cover
\* 81 of its 100 pixels.
C5_Witness ==
  /\ Uniform /\ pc = "done" /\ result.kind = "Ok"
  /\ width = 10 /\ height = 10
  /\ Len(sub_images) = 9
  /\ \A i \in 1 .. 9 : sub_images[i].w = 3 /\ sub_images[i].h = 3
  /\ TotalArea = 81
  /\ Cardinality({p \in Pixels : Covering(p[1], p[2]) # {}}) = 81

\* C6: in split_image_with_size, on each axis by itself, a tile that is not
\* in the last column (row) of the grid has the full sub_width (sub_height),
\* and a tile in the last column (row) has the full size when sub_width
\* divides width (sub_height divides height) and otherwise the strictly
\* smaller remainder.
C6_EdgeClamping ==
  (Sized /\ file.ok) =>
    \A i \in 1 .. Len(sub_images) :
      LET t == sub_images[i]
          lastCol == SizedCol(i) = GridCols - 1
          lastRow == SizedRow(i) = GridRows - 1
      IN /\ ~lastCol => t.w = sub_width
         /\ (lastCol /\ width % sub_width = 0) => t.w = sub_width
         /\ (lastCol /\ width % sub_width # 0) =>
              (t.w < sub_width /\ t.w = width % sub_width)
         /\ ~lastRow => t.h = sub_height
         /\ (lastRow /\ height % sub_height = 0) => t.h = sub_height
         /\ (lastRow /\ height % sub_height # 0) =>
              (t.h < sub_height /\ t.h = height % sub_height)

\* C6 happens: width = 10 with sub_width = 4 has given the column widths
\* 4, 4, 2, and the bottom-right tile is both narrower and shorter than
\* sub_width x sub_height.
C6_Witness ==
  /\ Sized /\ pc = "done" /\ result.kind = "Ok"
  /\ width = 10 /\ sub_width = 4 /\ height = 3 /\ sub_height = 2
  /\ Len(sub_images) = 6
  /\ <<sub_images[1].w, sub_images[2].w, sub_images[3].w>> = <<4, 4, 2>>
  /\ sub_images[6].w = 2 /\ sub_images[6].h = 1

\* C9: every region handed to crop_imm, by either function, lies inside the
\* image (x + w <= width, y + h <= height), so that the clamping of the
\* extraction changes nothing; in split_image_with_size moreover x < width,
\* y < height and no tile is empty.
C9_RegionsInBounds ==
  \A i \in 1 .. Len(regions) :
    LET r == regions[i]
    IN /\ r.x + r.w <= width
       /\ r.y + r.h <= height
       /\ crop_dimms(width, height, r.x, r.y, r.w, r.h) = r
       /\ sub_images[i].w = r.w /\ sub_images[i].h = r.h
       /\ Sized => /\ r.x < width /\ r.y < height
                   /\ r.w >= 1 /\ r.h >= 1
                   /\ DOMAIN sub_images[i].px # {}

\* C9 happens: split_image_with_size has cut a bottom-right tile that is
\* clipped on both axes and ends exactly at the image's far corner.
C9_Witness ==
  /\ Sized /\ pc = "done" /\ result.kind = "Ok"
  /\ width % sub_width # 0 /\ height % sub_height # 0
  /\ Len(regions) >= 4
  /\ regions[Len(regions)].x + regions[Len(regions)].w = width
  /\ regions[Len(regions)].y + regions[Len(regions)].h = height

\* The rectangle the specification assigns to the tile at index i of
\* split_image_with_size.
SpecRect(i) ==
  LET sx == SizedCol(i) * sub_width
      sy == SizedRow(i) * sub_height
  IN [x |-> sx, y |-> sy,
      w |-> Min(sub_width, width - sx), h |-> Min(sub_height, height - sy)]

\* Every pixel of the image lies in exactly one tile, and the tile areas add
\* up to the image's area.
ExactCover ==
  /\ \A p \in Pixels : Cardinality(Covering(p[1], p[2])) = 1
  /\ TotalArea = width * height

\* C1: when split_image_with_size, called with sub_width, sub_height >= 1,
\* has finished its loop and returned, every pixel of the image lies in
\* exactly one tile and the tile areas add up to width * height.
C1_CoverageComplete ==
  (Sized /\ ValidTiles /\ result.kind = "Ok") => ExactCover

\* The part of C1 the code keeps: the same, for the calls whose grid
\* computation stays within the integer range.
CoverageWithinRange ==
  (Sized /\ ValidTiles /\ GridInRange /\ file.ok) =>
    /\ result.kind \in {"None", "Ok"}
    /\ result.kind = "Ok" => ExactCover

\* C2: split_image_with_size called with sub_width = 0 or sub_height = 0 on
\* an image that decodes ends with the error InvalidParameter, with no
\* panic and no tile.
C2_ZeroTileRejected ==
  (Sized /\ file.ok /\ (sub_width = 0 \/ sub_height = 0) /\ pc = "done") =>
    (result = Err("InvalidParameter") /\ sub_images = <<>>)

\* C4: in split_image_with_size with sub_width, sub_height >= 1 the tiles
\* pushed so far are always a prefix of the row-major sequence of the grid
\* of ceil(width/sub_width) columns and ceil(height/sub_height) rows, the
\* tile at index i cut at (col * sub_width, row * sub_height) with the
\* dimensions (min(sub_width, width - x), min(sub_height, height - y)); and
\* the returned sequence has exactly GridCols * GridRows tiles, at least one.
C4_RowMajorGrid ==
  (Sized /\ ValidTiles /\ file.ok) =>
    /\ Len(sub_images) <= GridCols * GridRows
    /\ \A i \in 1 .. Len(sub_images) : TileRect(i) = SpecRect(i)
    /\ result.kind = "Ok" =>
         /\ Len(result.value) = GridCols * GridRows
         /\ Len(result.value) >= 1

\* The part of C4 the code keeps: the same, for the calls whose grid
\* computation stays within the integer range.
RowMajorGridWithinRange ==
  (Sized /\ ValidTiles /\ GridInRange /\ file.ok) =>
    /\ Len(sub_images) <= GridCols * GridRows
    /\ \A i \in 1 .. Len(sub_images) : TileRect(i) = SpecRect(i)
    /\ pc = "done" =>
         /\ result.kind = "Ok"
         /\ Len(result.value) = GridCols * GridRows
         /\ Len(result.value) >= 1

\* The returned sequence is the whole grid of the function called.
CompleteSequence ==
  /\ result.value = sub_images
  /\ Uniform => Len(result.value) = 9
  /\ Sized => (ValidTiles /\ Len(result.value) = GridCols * GridRows)

\* A failed decode ends the call with the decoder's error and no tile.
DecodeErrorPropagated ==
  ~file.ok =>
    /\ sub_images = <<>> /\ regions = <<>>
    /\ result \in {NoResult, Err(file.error)}
    /\ pc = "done" => result = Err(file.error)

\* C7: for both functions, a failed decode ends the call with the decoder's
\* error unchanged and no tile; an error result never comes with tiles; and
\* an Ok result holds every tile of the grid, never a proper prefix.
C7_AllOrNothing ==
  /\ DecodeErrorPropagated
  /\ result.kind = "Err" => sub_images = <<>>
  /\ result.kind = "Ok" => CompleteSequence

\* The part of C7 the code keeps: the same, for split_image and for the
\* calls of split_image_with_size whose grid computation stays within the
\* integer range.
AllOrNothingWithinRange ==
  /\ DecodeErrorPropagated
  /\ result.kind = "Err" => sub_images = <<>>
  /\ (result.kind = "Ok" /\ (Sized => GridInRange)) => CompleteSequence

\* Every pixel of every tile is the source pixel at the tile's row-major
\* place, and the image is what the decoder produced.
TilesCopySource ==
  /\ img = DecodedImage(file.w, file.h)
  /\ \A i \in 1 .. Len(sub_images) :
       LET t == sub_images[i]
           sx == SizedCol(i) * sub_width
           sy == SizedRow(i) * sub_height
       IN /\ DOMAIN t.px = (0 .. t.w - 1) \X (0 .. t.h - 1)
          /\ \A d \in DOMAIN t.px :
               /\ <<sx + d[1], sy + d[2]>> \in Pixels
               /\ t.px[d] = img[<<sx + d[1], sy + d[2]>>]

\* Putting every tile back at its row-major place yields every pixel of the
\* source.
Reconstructs ==
  \A p \in Pixels :
    \E i \in 1 .. Len(sub_images) :
      LET dx == p[1] - SizedCol(i) * sub_width
          dy == p[2] - SizedRow(i) * sub_height
      IN /\ <<dx, dy>> \in DOMAIN sub_images[i].px
         /\ sub_images[i].px[<<dx, dy>>] = img[p]

\* C8: in split_image_with_size with sub_width, sub_height >= 1, pixel
\* (dx, dy) of the tile at index i is the source pixel (x + dx, y + dy) for
\* x = col * sub_width, y = row * sub_height; the image is left as decoded;
\* and the returned tiles, put back at these places, reconstruct the whole
\* source image.
C8_RoundTrip ==
  (Sized /\ ValidTiles /\ file.ok /\ pc # "open") =>
    /\ TilesCopySource
    /\ result.kind = "Ok" => Reconstructs

\* The part of C8 the code keeps: the same, for the calls whose grid
\* computation stays within the integer range.
RoundTripWithinRange ==
  (Sized /\ ValidTiles /\ GridInRange /\ file.ok /\ pc # "open") =>
    /\ TilesCopySource
    /\ pc = "done" => (result.kind = "Ok" /\ Reconstructs)

\* No u32 operation of the loop body at the current loop position leaves
\* the integer range.
LoopBodyExact ==
  (pc = "loop" /\ ~loop_done) =>
    /\ ~Overflows(x_pos(x)) /\ ~Overflows(y_pos(y))
    /\ ~Overflows(width - x_pos(x)) /\ ~Overflows(height - y_pos(y))

\* The u32 ceiling division yields the exact ceiling, in either build.
GridExact ==
  /\ ceiling_division(width, sub_width, build) =
       [panic |-> "none", val |-> GridCols]
  /\ ceiling_division(height, sub_height, build) =
       [panic |-> "none", val |-> GridRows]

\* C10: in split_image_with_size with any sub_width, sub_height >= 1 (up to
\* the largest u32), dimension + sub_dimension - 1 stays within the integer
\* range, num_cols and num_rows are the exact ceilings, col * sub_width and
\* row * sub_height do not overflow, and width - x, height - y do not
\* underflow.
C10_ExactArithmetic ==
  (Sized /\ ValidTiles /\ file.ok /\ pc # "open") =>
    /\ ~Overflows(width + sub_width - 1)
    /\ ~Overflows(height + sub_height - 1)
    /\ GridExact
    /\ LoopBodyExact
    /\ result.kind # "Panic"

\* The part of C10 the code keeps: the same, for the calls with
\* width + sub_width and height + sub_height within the integer range.
ArithmeticWithinRange ==
  (Sized /\ ValidTiles /\ GridInRange /\ file.ok /\ pc # "open") =>
    /\ GridExact
    /\ LoopBodyExact
    /\ result.kind # "Panic"
    /\ pc \in {"loop", "done"} => (num_cols = GridCols /\ num_rows = GridRows)
====
